---- MODULE Spec2Model ----
(***************************************************************************)
(* Registration and login endpoints of app/routers/auth.py, with the       *)
(* request schemas of app/schemas/user.py.                                 *)
(*                                                                         *)
(* Each request is served by a worker.  A register request touches the     *)
(* database once (db.commit, which flushes the INSERT), so it is modelled  *)
(* in two steps: building the User object (validation, set_password) and   *)
(* the commit with the handler's reaction to its outcome.  A login request *)
(* reads the database once (the query) and everything after it depends on  *)
(* what the query returned, so it is one step.                             *)
(*                                                                         *)
(* The User model, the password hasher, the token issuer and the database  *)
(* are not part of the sources at hand; they follow sections 3, 4.1, 4.2   *)
(* and 4.3 of the specification.                                           *)
(***************************************************************************)
EXTENDS Integers, Sequences, FiniteSets, TLC

VARIABLES
    store,       \* the rows of table users
    now,         \* the clock, in minutes
    nextId,      \* ids handed out so far (a generated id is never reused)
    pc,          \* per worker: "idle", "reg_built", "done"
    req,         \* per worker: the request being served
    db_user,     \* per worker: the handler's local db_user
    resp,        \* per worker: the response sent
    ev,          \* per worker: what the store did for this request (history)
    registered   \* history: (email, password) of every successful registration

vars == <<store, now, nextId, pc, req, db_user, resp, ev, registered>>

----------------------------------------------------------------------------
(* Bounds *)

MaxTime == 1

Procs == {"w1", "w2"}

----------------------------------------------------------------------------
(* Inputs.  An email is the sequence of its parts, so that its syntax can  *)
(* be inspected.  The addresses are lower-case, which EmailStr's           *)
(* normalisation of the domain leaves as they are.                         *)

U50 == "abcdefghijabcdefghijabcdefghijabcdefghijabcdefghij"
U51 == "abcdefghijabcdefghijabcdefghijabcdefghijabcdefghijk"

Usernames == {"al", "johndoe", U50, U51}

JohnMail == <<"john", "@", "example", ".", "com">>
TestMail == <<"test", "@", "example", ".", "com">>
BadMail == <<"john", "example", ".", "com">>

Emails == {JohnMail, TestMail, BadMail}

Passwords == {"wrong", "SecurePass123"}

\* The register requests tried: all fields well-formed, or one of them
\* malformed (a username of 2 or 51 characters, an address without "@", a
\* password of 5 characters).
RegisterRequests ==
    {r \in [op : {"register"}, username : Usernames, email : Emails,
            password : Passwords] :
        Cardinality({f \in {"username"} : r.username \in {"al", U51}}
                    \cup {f \in {"email"} : r.email = BadMail}
                    \cup {f \in {"password"} : r.password = "wrong"}) <= 1}

None == [none |-> TRUE]

----------------------------------------------------------------------------
(* app/schemas/user.py *)

MinUsernameLen == 3
MaxUsernameLen == 50
MinPasswordLen == 8

\* Faulty variant: max_length dropped from the username field.
UsernameValidNoMax(u) == Len(u) >= MinUsernameLen

UsernameValid(u) == Len(u) >= MinUsernameLen /\ Len(u) <= MaxUsernameLen

PasswordValid(pw) == Len(pw) >= MinPasswordLen

\* EmailStr: one "@", something before it, and a dotted domain after it.
EmailValid(e) ==
    /\ Cardinality({i \in 1..Len(e) : e[i] = "@"}) = 1
    /\ LET at == CHOOSE i \in 1..Len(e) : e[i] = "@"
       IN  /\ at > 1
           /\ at < Len(e)
           /\ e[at + 1] # "."
           /\ e[Len(e)] # "."
           /\ \E i \in (at + 1)..Len(e) : e[i] = "."

UserCreateValid(r) ==
    UsernameValid(r.username) /\ EmailValid(r.email) /\ PasswordValid(r.password)

UserLoginValid(r) == EmailValid(r.email)

\* Faulty variant: the schema also declares password_hash.
UserReadWithHash(u) ==
    [id |-> u.id, username |-> u.username, email |-> u.email,
     created_at |-> u.created_at, password_hash |-> u.password_hash]

\* UserRead (from_attributes): the fields the schema declares, nothing else.
UserRead(u) ==
    [id |-> u.id, username |-> u.username, email |-> u.email,
     created_at |-> u.created_at]

TokenResponse(token, type, u) ==
    [access_token |-> token, token_type |-> type, user |-> UserRead(u)]

ValidationError == [status |-> 422, detail |-> <<"validation error">>]

----------------------------------------------------------------------------
(* Credential hasher and token issuer (specification 4.1, 4.2) *)

\* The hash is salted: the same password hashes to as many strings as there
\* are salts, and verification recomputes the digest under the hash's salt.
Salts == {"salt1", "salt2"}

Digest(salt, pw) == <<"bcrypt", salt, pw>>

Hash(pw, salt) == [alg |-> "$2b$", salt |-> salt, digest |-> Digest(salt, pw)]

Verify(pw, h) == h.digest = Digest(h.salt, pw)

create_access_token(sub, expires_delta) ==
    [sub |-> sub, exp |-> now + expires_delta, alg |-> "HS256"]

----------------------------------------------------------------------------
(* User store (specification 4.3) *)

DupUsername(s, u) == \E r \in s : r.username = u.username
DupEmail(s, u) == \E r \in s : r.email = u.email

Collided(s, u) ==
    (IF DupUsername(s, u) THEN {"username"} ELSE {}) \cup
    (IF DupEmail(s, u) THEN {"email"} ELSE {})

\* What the INSERT can do: succeed when no unique constraint is violated,
\* report one of the violated constraints, or fail for another reason.
CreateOutcomes(s, u) ==
    (IF Collided(s, u) = {} THEN {"ok"} ELSE {}) \cup
    {"dup_" \o f : f \in Collided(s, u)} \cup
    {"integrity_other", "error"}

FindByEmail(s, e) ==
    IF \E r \in s : r.email = e THEN CHOOSE r \in s : r.email = e ELSE None

InsertStatement ==
    <<"[SQL: INSERT INTO", "users", "(", "id", "username", "email",
      "password_hash", "created_at", ") VALUES (?, ?, ?, ?, ?)]">>

Parameters(u) == <<"[parameters:", u.username>> \o u.email \o <<"]">>

\* str(e) of the error the commit raised: the driver's message, then the
\* statement and its parameters.
ErrorStr(outcome, u) ==
    CASE outcome = "dup_username" ->
           <<"(IntegrityError)", "UNIQUE constraint failed:", "users", ".",
             "username">> \o InsertStatement \o Parameters(u)
      [] outcome = "dup_email" ->
           <<"(IntegrityError)", "UNIQUE constraint failed:", "users", ".",
             "email">> \o InsertStatement \o Parameters(u)
      [] outcome = "integrity_other" ->
           <<"(IntegrityError)", "constraint failed">>
             \o InsertStatement \o Parameters(u)
      [] OTHER ->
           <<"(OperationalError)", "server closed the connection">>

IsIntegrityError(outcome) ==
    outcome \in {"dup_username", "dup_email", "integrity_other"}

----------------------------------------------------------------------------
(* app/routers/auth.py *)

ACCESS_TOKEN_EXPIRE_MINUTES == 30

HTTPException(status_code, detail) == [status |-> status_code, detail |-> detail]

\* "word" in str(e)
Contains(word, msg) == \E i \in 1..Len(msg) : msg[i] = word

\* Faulty variant: no except IntegrityError clause, every failure is a 500.
RegisterErrorUnhandled(outcome, u) ==
    HTTPException(500, <<"Internal server error: ">> \o ErrorStr(outcome, u))

\* except IntegrityError / except Exception
RegisterError(outcome, u) ==
    LET msg == ErrorStr(outcome, u)
    IN  IF IsIntegrityError(outcome)
        THEN IF Contains("username", msg)
             THEN HTTPException(400, <<"Username already exists">>)
             ELSE IF Contains("email", msg)
                  THEN HTTPException(400, <<"Email already exists">>)
                  ELSE HTTPException(400, <<"Registration failed">>)
        ELSE HTTPException(500, <<"Internal server error: ">> \o msg)

\* return db_user, through response_model=UserRead, status_code=201
RegisterOk(u) == [status |-> 201, body |-> UserRead(u)]

\* db.add(db_user); db.commit(); db.refresh(db_user)
Persist(s, row) == s \cup {row}

\* Faulty variants of the failure path: the pending row is written anyway;
\* the rows the new one conflicts with are deleted.
RollbackKeepsRow(s, row) == s \cup {row}

RollbackDropsConflicting(s, row) ==
    {r \in s : r.username # row.username /\ r.email # row.email}

\* db.rollback()
Rollback(s, row) == s

\* Faulty variant: an unknown email is reported as such.
LoginNotFound404 == HTTPException(404, <<"User not found">>)

LoginNotFound == HTTPException(401, <<"Invalid email or password">>)

LoginBadPassword == HTTPException(401, <<"Invalid email or password">>)

\* Faulty variant: expires_delta not passed, the issuer's default applies.
LoginOkDefaultExpiry(u) ==
    [status |-> 200,
     body |-> TokenResponse(create_access_token(ToString(u.id), 15),
                            "bearer", u)]

LoginOk(u) ==
    [status |-> 200,
     body |-> TokenResponse(
         create_access_token(ToString(u.id),
                             ACCESS_TOKEN_EXPIRE_MINUTES),
         "bearer", u)]

\* Faulty variant: the password is not verified.
LoginResponseNoVerify(u, password) ==
    IF u = None THEN LoginNotFound ELSE LoginOk(u)

LoginResponse(u, password) ==
    IF u = None THEN LoginNotFound
    ELSE IF ~Verify(password, u.password_hash) THEN LoginBadPassword
    ELSE LoginOk(u)

NoEvent == [kind |-> "none"]

----------------------------------------------------------------------------

Init ==
    /\ store = {}
    /\ now = 0
    /\ nextId = 1
    /\ pc = [p \in Procs |-> "idle"]
    /\ req = [p \in Procs |-> None]
    /\ db_user = [p \in Procs |-> None]
    /\ resp = [p \in Procs |-> None]
    /\ ev = [p \in Procs |-> NoEvent]
    /\ registered = {}

\* POST /api/auth/register: validation, User(...), set_password
RegisterBuild(p) ==
    /\ pc[p] = "idle"
    /\ \E r \in RegisterRequests, salt \in Salts :
         LET u == r.username
             e == r.email
             pw == r.password
         IN  /\ req' = [req EXCEPT ![p] = r]
             /\ IF UserCreateValid(r)
                THEN /\ db_user' = [db_user EXCEPT ![p] =
                            [username |-> u, email |-> e,
                             password_hash |-> Hash(pw, salt)]]
                     /\ pc' = [pc EXCEPT ![p] = "reg_built"]
                     /\ resp' = resp
                     /\ ev' = [ev EXCEPT ![p] =
                            [kind |-> "register", attempts |-> 0,
                             seen |-> Collided(store, r)]]
                ELSE /\ db_user' = db_user
                     /\ pc' = [pc EXCEPT ![p] = "done"]
                     /\ resp' = [resp EXCEPT ![p] = ValidationError]
                     /\ ev' = [ev EXCEPT ![p] =
                            [kind |-> "rejected", attempts |-> 0, added |-> {}]]
    /\ UNCHANGED <<store, now, nextId, registered>>

\* db.add, db.commit, db.refresh and the except clauses
RegisterCommit(p) ==
    /\ pc[p] = "reg_built"
    /\ \E outcome \in CreateOutcomes(store, db_user[p]) :
         LET u == db_user[p]
             row == [id |-> nextId, username |-> u.username,
                     email |-> u.email, password_hash |-> u.password_hash,
                     created_at |-> now]
             after == IF outcome = "ok" THEN Persist(store, row)
                      ELSE Rollback(store, row)
         IN  /\ store' = after
             /\ nextId' = IF outcome = "ok" THEN nextId + 1 ELSE nextId
             /\ db_user' = [db_user EXCEPT ![p] =
                    IF outcome = "ok" THEN row ELSE u]
             /\ resp' = [resp EXCEPT ![p] =
                    IF outcome = "ok" THEN RegisterOk(row)
                    ELSE RegisterError(outcome, u)]
             /\ ev' = [ev EXCEPT ![p] =
                    [kind |-> "register", attempts |-> ev[p].attempts + 1,
                     seen |-> ev[p].seen,
                     outcome |-> outcome, collided |-> Collided(store, u),
                     added |-> after \ store, removed |-> store \ after,
                     cause |-> IF outcome = "ok" THEN <<>>
                               ELSE ErrorStr(outcome, u)]]
             /\ registered' =
                    IF outcome = "ok"
                    THEN registered \cup
                           {[email |-> u.email, password |-> req[p].password]}
                    ELSE registered
    /\ pc' = [pc EXCEPT ![p] = "done"]
    /\ UNCHANGED <<now, req>>

\* POST /api/auth/login
Login(p) ==
    /\ pc[p] = "idle"
    /\ \E e \in Emails, pw \in Passwords :
         LET r == [op |-> "login", email |-> e, password |-> pw]
             u == FindByEmail(store, e)
         IN  /\ req' = [req EXCEPT ![p] = r]
             /\ IF UserLoginValid(r)
                THEN /\ db_user' = [db_user EXCEPT ![p] = u]
                     /\ resp' = [resp EXCEPT ![p] = LoginResponse(u, pw)]
                     /\ ev' = [ev EXCEPT ![p] =
                            [kind |-> "login", at |-> now,
                             matching |-> {x \in store : x.email = e},
                             known |-> {g \in registered : g.email = e}]]
                ELSE /\ db_user' = db_user
                     /\ resp' = [resp EXCEPT ![p] = ValidationError]
                     /\ ev' = [ev EXCEPT ![p] =
                            [kind |-> "rejected", attempts |-> 0, added |-> {}]]
    /\ pc' = [pc EXCEPT ![p] = "done"]
    /\ UNCHANGED <<store, now, nextId, registered>>

\* the response has been sent; the worker takes the next request
Return(p) ==
    /\ pc[p] = "done"
    /\ pc' = [pc EXCEPT ![p] = "idle"]
    /\ req' = [req EXCEPT ![p] = None]
    /\ db_user' = [db_user EXCEPT ![p] = None]
    /\ resp' = [resp EXCEPT ![p] = None]
    /\ ev' = [ev EXCEPT ![p] = NoEvent]
    /\ UNCHANGED <<store, now, nextId, registered>>

Tick ==
    /\ now < MaxTime
    /\ now' = now + 1
    /\ UNCHANGED <<store, nextId, pc, req, db_user, resp, ev, registered>>

Next ==
    \/ \E p \in Procs : RegisterBuild(p)
    \/ \E p \in Procs : RegisterCommit(p)
    \/ \E p \in Procs : Login(p)
    \/ \E p \in Procs : Return(p)
    \/ Tick

Spec == Init /\ [][Next]_vars

----------------------------------------------------------------------------
(* Properties *)

RegDone(p) == pc[p] = "done" /\ ev[p].kind = "register"

LoginDone(p) == pc[p] = "done" /\ ev[p].kind = "login"

Rejected(p) == pc[p] = "done" /\ ev[p].kind = "rejected"

StoreFailed(p) == ev[p].outcome \in {"integrity_other", "error"}

UsernameConflict == HTTPException(400, <<"Username already exists">>)

EmailConflict == HTTPException(400, <<"Email already exists">>)

InvalidCredentials == HTTPException(401, <<"Invalid email or password">>)

\* some part of the text of the failure appears in the response
Leaks(detail, cause) ==
    \E i \in 1..Len(detail) : \E j \in 1..Len(cause) : detail[i] = cause[j]

\* C1: a registration the store rejects as a duplicate is answered with the
\* conflict error of the field that collided: "Username already exists" when
\* only the username is taken, "Email already exists" when only the email is.
C1_ConflictNamesCollidedField ==
    \A p \in Procs :
        (RegDone(p) /\ ev[p].outcome \in {"dup_username", "dup_email"}) =>
            /\ ev[p].collided = {"username"} => resp[p] = UsernameConflict
            /\ ev[p].collided = {"email"} => resp[p] = EmailConflict

\* C2: a login for an email no user has and a login for an existing email
\* with a password that does not verify get the same response, 401 "Invalid
\* email or password".
C2_LoginFailuresIndistinguishable ==
    \A p, q \in Procs :
        (/\ LoginDone(p) /\ ev[p].matching = {}
         /\ LoginDone(q) /\ ev[q].matching # {}
         /\ \A r \in ev[q].matching : ~Verify(req[q].password, r.password_hash))
        => /\ resp[p] = resp[q]
           /\ resp[p].status = 401
           /\ resp[p].detail = <<"Invalid email or password">>

C2_Witness ==
    \E p, q \in Procs :
        /\ LoginDone(p) /\ ev[p].matching = {}
        /\ LoginDone(q) /\ ev[q].matching # {}
        /\ \A r \in ev[q].matching : ~Verify(req[q].password, r.password_hash)

\* C3: no two stored users share a username or an email; of two register
\* requests with the same username or the same email at most one persists a
\* user, and one the store rejects as a duplicate gets a 400 conflict error
\* and persists nothing.
C3_UniqueUnderConcurrency ==
    /\ \A r1, r2 \in store :
           (r1.username = r2.username \/ r1.email = r2.email) => r1 = r2
    /\ \A p, q \in Procs :
           (/\ p # q /\ RegDone(p) /\ RegDone(q)
            /\ \/ req[p].username = req[q].username
               \/ req[p].email = req[q].email)
           => ~(resp[p].status = 201 /\ resp[q].status = 201)
    /\ \A p \in Procs :
           (RegDone(p) /\ ev[p].outcome \in {"dup_username", "dup_email"})
           => /\ resp[p] \in {UsernameConflict, EmailConflict}
              /\ ev[p].added = {}

\* two requests race: the loser saw no conflict when it was built
C3_Witness ==
    \E p, q \in Procs :
        /\ p # q /\ RegDone(p) /\ RegDone(q)
        /\ resp[p].status = 201
        /\ ev[q].seen = {}
        /\ ev[q].outcome \in {"dup_username", "dup_email"}
        /\ resp[q].status = 400

FreshRegistrationSucceeds(p) ==
    /\ resp[p].status = 201
    /\ Cardinality(ev[p].added) = 1
    /\ \A r \in ev[p].added :
           /\ r.username = req[p].username
           /\ r.email = req[p].email
           /\ resp[p].body.id = r.id
           /\ resp[p].body.username = r.username
           /\ resp[p].body.email = r.email
           /\ resp[p].body.created_at = r.created_at
           /\ resp[p].body.username # req[p].password
    /\ DOMAIN resp[p].body = {"id", "username", "email", "created_at"}

C5_LoginIssuesTokenForUser ==
    \A p \in Procs :
        LoginDone(p) =>
            \A r \in ev[p].matching :
                Verify(req[p].password, r.password_hash) =>
                    /\ resp[p].status = 200
                    /\ resp[p].body.access_token.sub = ToString(r.id)
                    /\ resp[p].body.access_token.exp = ev[p].at + 30
                    /\ resp[p].body.token_type = "bearer"
                    /\ resp[p].body.user =
                         [id |-> r.id, username |-> r.username,
                          email |-> r.email, created_at |-> r.created_at]

\* a login succeeds while another user is stored too, after time has passed
C5_Witness ==
    \E p \in Procs :
        /\ LoginDone(p)
        /\ \E r \in ev[p].matching : Verify(req[p].password, r.password_hash)
        /\ Cardinality(store) = 2
        /\ ev[p].at > 0

\* C6: a registration that fails in the store for a reason other than a
\* duplicate is answered with a 500 whose body holds none of the text of the
\* failure.
C6_StoreFailureIsGeneric500 ==
    \A p \in Procs :
        (RegDone(p) /\ StoreFailed(p)) =>
            /\ resp[p].status = 500
            /\ ~Leaks(resp[p].detail, ev[p].cause)

\* C7: once a registration of (email, password) has succeeded, a login with
\* that email succeeds with 200 when it carries that password and fails with
\* 401 "Invalid email or password" when it carries another.
C7_LoginAfterRegister ==
    \A p \in Procs :
        LoginDone(p) =>
            \A g \in ev[p].known :
                /\ req[p].password = g.password => resp[p].status = 200
                /\ req[p].password # g.password => resp[p] = InvalidCredentials

C7_Witness ==
    \E p, q \in Procs :
        /\ LoginDone(p) /\ LoginDone(q)
        /\ \E g \in ev[p].known : req[p].password = g.password
        /\ \E g \in ev[q].known : req[q].password # g.password
        /\ Cardinality(registered) = 2

\* C8: a register request with a username shorter than 3 or longer than 50
\* characters, an invalid email or a password shorter than 8 characters is
\* rejected before the handler runs: no user object is built, nothing is
\* hashed, the store is not touched; every stored username has 3 to 50
\* characters.
C8_InvalidInputNeverReachesHandler ==
    /\ \A p \in Procs :
           (/\ pc[p] # "idle" /\ req[p].op = "register"
            /\ \/ Len(req[p].username) < 3
               \/ Len(req[p].username) > 50
               \/ ~EmailValid(req[p].email)
               \/ Len(req[p].password) < 8)
           => /\ pc[p] = "done"
              /\ resp[p].status = 422
              /\ db_user[p] = None
              /\ ev[p].attempts = 0
              /\ ev[p].added = {}
    /\ \A r \in store : Len(r.username) >= 3 /\ Len(r.username) <= 50

C8_Witness ==
    /\ \E p \in Procs :
           /\ Rejected(p) /\ req[p].op = "register"
           /\ Len(req[p].username) > 50
           /\ EmailValid(req[p].email) /\ Len(req[p].password) >= 8
    /\ \E r \in store : Len(r.username) = 50

C10_UsersAreImmutable ==
    [][/\ \A r \in store : r \in store'
       /\ \A p \in Procs :
              (pc[p] = "idle" /\ pc'[p] = "done" /\ req'[p].op = "login")
              => store' = store]_vars

\* a user registered earlier is still there when logins and failed
\* registrations have been served
C10_Witness ==
    \E p, q \in Procs :
        /\ LoginDone(p) /\ resp[p].status = 200
        /\ db_user[p] \in store /\ db_user[p].created_at < now
        /\ RegDone(q) /\ resp[q].status # 201 /\ ev[q].collided # {}

====
